---- MODULE Spec2Model ----
(***************************************************************************)
(* pydash/objects.py over an explicit Python heap.                          *)
(*                                                                          *)
(* A Python value is a pair <<tag, n>>: <<"int", n>>, <<"bool", 0 or 1>>,  *)
(* <<"str", length>>, <<"none", 0>>, or <<"ref", address>>, the reference  *)
(* to a list or a dict.  The heap is the sequence of the containers        *)
(* allocated so far; a reference is an index into it.  A dict keeps its    *)
(* (key, value) pairs in insertion order, a list keeps its values in index *)
(* order.  Two names bound to one container hold the same reference, so    *)
(* that a write through one is seen through the other.                     *)
(***************************************************************************)
EXTENDS Integers, Sequences, FiniteSets, TLC

VARIABLES heap, pre, obj, srcs, op, arg, ret, exc, log, nwrites

vars == <<heap, pre, obj, srcs, op, arg, ret, exc, log, nwrites>>

(***************************************************************************)
(* Bounds of the checked input families.                                   *)
(***************************************************************************)
MaxLen == 2

MaxSources == 2

MaxWrites == 2

MaxPairs == 3

(***************************************************************************)
(* Python values.                                                          *)
(***************************************************************************)
None == <<"none", 0>>

False == <<"bool", 0>>

True == <<"bool", 1>>

PyInt(n) == <<"int", n>>

Str(n) == <<"str", n>>

Ref(a) == <<"ref", a>>

IsRef(v) == v[1] = "ref"

Addr(v) == v[2]

NoCallback == "none"

\* isinstance(value, list), isinstance(value, dict)
is_list(h, v) == IsRef(v) /\ h[Addr(v)].kind = "list"

is_dict(h, v) == IsRef(v) /\ h[Addr(v)].kind = "dict"

\* bool(value): None, False, 0, '' and the empty containers are falsy.
truthy(h, v) ==
    IF IsRef(v) THEN Len(h[Addr(v)].items) > 0
    ELSE IF v[1] = "none" THEN FALSE
    ELSE v[2] # 0

\* bool(callback): None is falsy, a function is truthy.
truthy_callback(cb) == cb # NoCallback

\* The callbacks (obj_value, source_value) -> value the calls are tried with.
Callbacks == {"use_obj", "use_src", "const"}

CallbackConst == PyInt(99)

call(cb, obj_value, src_value) ==
    CASE cb = "use_obj" -> obj_value
      [] cb = "use_src" -> src_value
      [] OTHER -> CallbackConst

(***************************************************************************)
(* utils: iterate, get_item, set_item (src/pydash/utils.py is not part of  *)
(* the sources at hand; written from sections 4.1 and 4.4 of the spec).    *)
(***************************************************************************)
\* The (key, value) pairs of a collection: index-keyed from 0 for a list,
\* the pairs in insertion order for a dict.
iterate(h, v) ==
    LET c == h[Addr(v)] IN
    IF c.kind = "list"
    THEN [i \in 1..Len(c.items) |-> <<i - 1, c.items[i]>>]
    ELSE c.items

dict_keys(c) == {c.items[i][1] : i \in 1..Len(c.items)}

dict_index(c, key) == CHOOSE i \in 1..Len(c.items) : c.items[i][1] = key

\* obj.get(key, default) of a dict.
dict_get(h, o, key, default) ==
    LET c == h[Addr(o)] IN
    IF key \in dict_keys(c) THEN c.items[dict_index(c, key)][2] ELSE default

\* obj[key] = value of a dict: in place when the key exists, appended when not.
dict_set(h, o, key, value) ==
    LET c == h[Addr(o)] IN
    IF key \in dict_keys(c)
    THEN [h EXCEPT ![Addr(o)].items[dict_index(c, key)] = <<key, value>>]
    ELSE [h EXCEPT ![Addr(o)].items = Append(@, <<key, value>>)]

\* Mutant: the key is set whether obj holds it or not.
dict_setdefault_overwrites(h, o, key, value) == dict_set(h, o, key, value)

\* obj.setdefault(key, value) of a dict.
dict_setdefault(h, o, key, value) ==
    IF key \in dict_keys(h[Addr(o)]) THEN h ELSE dict_set(h, o, key, value)

\* get_item(obj, key, default=...): the lookup, or default on a miss.
get_item(h, o, key, default) ==
    LET c == h[Addr(o)] IN
    IF c.kind = "list"
    THEN IF key >= 0 /\ key < Len(c.items) THEN c.items[key + 1] ELSE default
    ELSE dict_get(h, o, key, default)

\* set_item(obj, key, value): assigns at the location, creating the slot.
set_item(h, o, key, value) ==
    LET c == h[Addr(o)] IN
    IF c.kind = "list"
    THEN IF key < Len(c.items)
         THEN [h EXCEPT ![Addr(o)].items[key + 1] = value]
         ELSE [h EXCEPT ![Addr(o)].items =
                  @ \o [i \in 1..(key - Len(c.items)) |-> None] \o <<value>>]
    ELSE dict_set(h, o, key, value)

(***************************************************************************)
(* update (objects.py 265-301) and merge (235-262).                        *)
(***************************************************************************)
\* Mutant: lists are never merged by position.
is_sequences_never(h, obj_value, src_value) == FALSE

is_sequences(h, obj_value, src_value) ==
    truthy(h, src_value) /\ is_list(h, src_value) /\ is_list(h, obj_value)

\* Mutant: mappings are never merged by key.
is_mappings_never(h, obj_value, src_value) == FALSE

\* Mutant: the emptiness of the source value is not looked at.
is_mappings_of_any_size(h, obj_value, src_value) ==
    is_dict(h, src_value) /\ is_dict(h, obj_value)

is_mappings(h, obj_value, src_value) ==
    truthy(h, src_value) /\ is_dict(h, src_value) /\ is_dict(h, obj_value)

\* Mutant: the test of line 292 without its "and not callback".
recurses_despite_callback(h, obj_value, src_value, callback) ==
    is_sequences(h, obj_value, src_value) \/ is_mappings(h, obj_value, src_value)

\* The test of line 292: recurse, and only without a callback.
recurses(h, obj_value, src_value, callback) ==
    /\ is_sequences(h, obj_value, src_value) \/ is_mappings(h, obj_value, src_value)
    /\ ~truthy_callback(callback)

RECURSIVE update(_, _, _, _)
RECURSIVE update_loop(_, _, _, _, _)

\* One turn of the loop of lines 283-299 on the i-th pair of the source,
\* then the turns that follow.  The value is the heap after the loop.
update_loop(h, o, source, callback, i) ==
    IF i > Len(iterate(h, source)) THEN h
    ELSE LET key == iterate(h, source)[i][1]
             src_value == iterate(h, source)[i][2]
             obj_value == get_item(h, o, key, None)
             rec == recurses(h, obj_value, src_value, callback)
             h1 == IF rec THEN update(h, obj_value, src_value, NoCallback) ELSE h
             result == IF rec THEN obj_value
                       ELSE IF truthy_callback(callback)
                            THEN call(callback, obj_value, src_value)
                            ELSE src_value
         IN update_loop(set_item(h1, o, key, result), o, source, callback, i + 1)

\* update(obj, source, callback): the heap after the call; it returns obj.
update(h, o, source, callback) == update_loop(h, o, source, callback, 1)

RECURSIVE merge_loop(_, _, _, _, _)

merge_loop(h, o, sources, callback, i) ==
    IF i > Len(sources) THEN h
    ELSE merge_loop(update(h, o, sources[i], callback), o, sources, callback, i + 1)

\* merge(obj, *sources, callback=...): the heap after the call; it returns obj.
merge(h, o, sources, callback) == merge_loop(h, o, sources, callback, 1)

(***************************************************************************)
(* assign (20-35) and defaults (86-94).  A call yields the heap after it   *)
(* and the exception it raised, "none" when it returned.                   *)
(***************************************************************************)
RECURSIVE assign_pairs(_, _, _, _, _)

assign_pairs(h, o, source, callback, i) ==
    IF i > Len(h[Addr(source)].items) THEN h
    ELSE LET key == h[Addr(source)].items[i][1]
             value == h[Addr(source)].items[i][2]
             new == IF callback = NoCallback THEN value
                    ELSE call(callback, dict_get(h, o, key, None), value)
         IN assign_pairs(dict_set(h, o, key, new), o, source, callback, i + 1)

RECURSIVE assign_loop(_, _, _, _, _)

assign_loop(h, o, sources, callback, i) ==
    IF i > Len(sources) THEN h
    ELSE assign_loop(assign_pairs(h, o, sources[i], callback, 1),
                     o, sources, callback, i + 1)

\* Line 27 reads sources[-1] whenever no callback keyword was given: an
\* IndexError on an empty list.  No source here is callable (all are dicts).
assign_raises(sources, callback) == callback = NoCallback /\ Len(sources) = 0

assign(h, o, sources, callback) ==
    IF assign_raises(sources, callback)
    THEN [heap |-> h, exc |-> "IndexError"]
    ELSE [heap |-> assign_loop(h, o, sources, callback, 1), exc |-> "none"]

RECURSIVE defaults_pairs(_, _, _, _)

defaults_pairs(h, o, source, i) ==
    IF i > Len(h[Addr(source)].items) THEN h
    ELSE LET key == h[Addr(source)].items[i][1]
             value == h[Addr(source)].items[i][2]
         IN defaults_pairs(dict_setdefault(h, o, key, value), o, source, i + 1)

RECURSIVE defaults(_, _, _, _)

\* defaults(obj, *sources), from the i-th source on: the heap after the call.
defaults(h, o, sources, i) ==
    IF i > Len(sources) THEN h
    ELSE defaults(defaults_pairs(h, o, sources[i], 1), o, sources, i + 1)

(***************************************************************************)
(* Inputs.  A literal is a value, <<"dict", pairs>> or <<"list", values>>; *)
(* alloc builds it on the heap, children first, and yields the new heap    *)
(* and the value.  The scalar at slot s of a structure owned by argument   *)
(* number w (0: obj, i: the i-th source) is 10 * w + s, so that a value in *)
(* a result tells where it came from.                                      *)
(***************************************************************************)
RECURSIVE alloc(_, _)
RECURSIVE alloc_children(_, _, _, _, _)

alloc_children(h, kind, kids, i, acc) ==
    IF i > Len(kids) THEN <<h, acc>>
    ELSE LET sub == alloc(h, IF kind = "dict" THEN kids[i][2] ELSE kids[i])
             item == IF kind = "dict" THEN <<kids[i][1], sub[2]>> ELSE sub[2]
         IN alloc_children(sub[1], kind, kids, i + 1, Append(acc, item))

alloc(h, lit) ==
    IF lit[1] \notin {"dict", "list"} THEN <<h, lit>>
    ELSE LET r == alloc_children(h, lit[1], lit[2], 1, <<>>)
         IN <<Append(r[1], [kind |-> lit[1], items |-> r[2]]), Ref(Len(r[1]) + 1)>>

RECURSIVE alloc_all(_, _, _, _)

\* The literals of a sequence, one after the other: <<heap, values>>.
alloc_all(h, lits, i, acc) ==
    IF i > Len(lits) THEN <<h, acc>>
    ELSE LET r == alloc(h, lits[i])
         IN alloc_all(r[1], lits, i + 1, Append(acc, r[2]))

RECURSIVE Owned(_, _)

\* The literal with every scalar moved to owner w.
Owned(lit, w) ==
    CASE lit[1] = "dict" ->
           <<"dict", [i \in 1..Len(lit[2]) |-> <<lit[2][i][1], Owned(lit[2][i][2], w)>>]>>
      [] lit[1] = "list" ->
           <<"list", [i \in 1..Len(lit[2]) |-> Owned(lit[2][i], w)]>>
      [] lit[1] = "int" -> PyInt(10 * w + lit[2])
      [] OTHER -> lit

Absent == <<"absent", 0>>

Entry(key, lit) == IF lit = Absent THEN <<>> ELSE <<<<key, lit>>>>

\* The dicts over the keys "a" and "b", the value of each drawn from a set
\* (Absent: the key is missing).
DictLits(As, Bs) == {<<"dict", Entry("a", x) \o Entry("b", y)>> : x \in As, y \in Bs}

\* The lists of at most n values, each drawn from a set; a scalar takes the
\* number of its slot.
ListLits(Es, n) ==
    UNION {{<<"list", [i \in 1..k |-> IF s[i][1] = "int" THEN PyInt(i) ELSE s[i]]>> :
                s \in [1..k -> Es]} : k \in 0..n}

\* Slot-numbered scalars, flat dicts and flat lists.
FlatDicts == DictLits({Absent, PyInt(1)}, {Absent, PyInt(2)})

FlatLists ==
    {<<"list", [i \in 1..k |-> PyInt(i)]>> : k \in 0..MaxLen}

\* obj and the sources of merge, assign and defaults: a dict whose "a" is
\* missing, a scalar or a flat dict, and whose "b" is missing or a scalar.
MergeTops == DictLits({Absent, PyInt(1)} \cup FlatDicts, {Absent, PyInt(2)})

\* obj and the source of update: a dict whose "a" is missing, a scalar, a
\* dict of scalars, flat dicts and flat lists, or a list of scalars and
\* small dicts.
SmallDicts == DictLits({Absent, PyInt(1)}, {Absent, PyInt(2)}) \ {<<"dict", <<<<"a", PyInt(1)>>, <<"b", PyInt(2)>>>>>>}

NestedDicts ==
    DictLits({Absent, PyInt(1)} \cup FlatDicts \cup FlatLists,
             {Absent, PyInt(2)} \cup FlatDicts \cup FlatLists)

ElemLists == ListLits({PyInt(0)} \cup SmallDicts, MaxLen)

UpdateTops == DictLits({Absent, PyInt(1)} \cup NestedDicts \cup ElemLists, {Absent})

SourceLits(Tops) ==
    UNION {{[i \in 1..n |-> Owned(s[i], i)] : s \in [1..n -> Tops]} : n \in 0..MaxSources}

(***************************************************************************)
(* The calls of merge, assign and defaults on every obj and every list of  *)
(* at most MaxSources sources.                                             *)
(***************************************************************************)
Init ==
    \E o \in MergeTops, ss \in SourceLits(MergeTops) :
        LET r == alloc_all(<<>>, <<o>> \o ss, 1, <<>>) IN
        /\ heap = r[1]
        /\ pre = r[1]
        /\ obj = r[2][1]
        /\ srcs = SubSeq(r[2], 2, Len(r[2]))
        /\ op = "init"
        /\ arg = NoCallback
        /\ ret = None
        /\ exc = "none"
        /\ log = <<>>
        /\ nwrites = 0

Merge ==
    /\ op = "init"
    /\ \E cb \in {NoCallback} \cup Callbacks :
        /\ heap' = merge(heap, obj, srcs, cb)
        /\ arg' = cb
    /\ op' = "merge"
    /\ pre' = heap
    /\ ret' = obj
    /\ UNCHANGED <<obj, srcs, exc, log, nwrites>>

Assign ==
    /\ op = "init"
    /\ \E cb \in {NoCallback} \cup Callbacks :
        LET r == assign(heap, obj, srcs, cb) IN
        /\ heap' = r.heap
        /\ exc' = r.exc
        /\ ret' = IF r.exc = "none" THEN obj ELSE None
        /\ arg' = cb
    /\ op' = "assign"
    /\ pre' = heap
    /\ UNCHANGED <<obj, srcs, log, nwrites>>

Defaults ==
    /\ op = "init"
    /\ heap' = defaults(heap, obj, srcs, 1)
    /\ op' = "defaults"
    /\ pre' = heap
    /\ ret' = obj
    /\ UNCHANGED <<obj, srcs, arg, exc, log, nwrites>>

Next == Merge \/ Assign \/ Defaults

Spec == Init /\ [][Next]_vars

(***************************************************************************)
(* Contents.  The content of a value is what == compares in Python: a     *)
(* scalar is itself, a dict is the set of its (key, content) pairs, a list *)
(* is the sequence of the contents of its values.                          *)
(***************************************************************************)
RECURSIVE Content(_, _)

Content(h, v) ==
    IF ~IsRef(v) THEN v
    ELSE LET c == h[Addr(v)] IN
         IF c.kind = "dict"
         THEN <<"dict", {<<c.items[i][1], Content(h, c.items[i][2])>> : i \in 1..Len(c.items)}>>
         ELSE <<"list", [i \in 1..Len(c.items) |-> Content(h, c.items[i])]>>

IsDictC(c) == c[1] = "dict"

IsListC(c) == c[1] = "list"

KeysC(c) == {p[1] : p \in c[2]}

AtC(c, k) == (CHOOSE p \in c[2] : p[1] = k)[2]

Max(a, b) == IF a >= b THEN a ELSE b

RECURSIVE MergedContent(_, _)

\* The merge of the spec, on contents: two non-empty mappings merge by key
\* and two lists with a non-empty source merge by position, the destination
\* keeping what the source does not hold; anywhere else the source wins.
MergedContent(o, s) ==
    IF IsDictC(o) /\ IsDictC(s) /\ o[2] # {} /\ s[2] # {}
    THEN <<"dict", {<<k, IF k \in KeysC(s)
                         THEN MergedContent(IF k \in KeysC(o) THEN AtC(o, k) ELSE None,
                                            AtC(s, k))
                         ELSE AtC(o, k)>> : k \in KeysC(o) \cup KeysC(s)}>>
    ELSE IF IsListC(o) /\ IsListC(s) /\ Len(s[2]) > 0
    THEN <<"list", [i \in 1..Max(Len(o[2]), Len(s[2])) |->
                        IF i <= Len(s[2])
                        THEN MergedContent(IF i <= Len(o[2]) THEN o[2][i] ELSE None, s[2][i])
                        ELSE o[2][i]]>>
    ELSE s

RECURSIVE MergedAll(_, _, _)

\* The sources merged into a content one after the other, from the i-th on.
\* At the top the destination and the source are always merged by key.
MergedTop(o, s) ==
    <<"dict", {<<k, IF k \in KeysC(s)
                    THEN MergedContent(IF k \in KeysC(o) THEN AtC(o, k) ELSE None, AtC(s, k))
                    ELSE AtC(o, k)>> : k \in KeysC(o) \cup KeysC(s)}>>

MergedAll(o, ss, i) ==
    IF i > Len(ss) THEN o ELSE MergedAll(MergedTop(o, ss[i]), ss, i + 1)

PreContents == [i \in 1..Len(srcs) |-> Content(pre, srcs[i])]

HasKey(h, o, k) == k \in dict_keys(h[Addr(o)])

\* The sources that hold key k, in argument order.
Holders(k) == {i \in 1..Len(srcs) : HasKey(pre, srcs[i], k)}

First(S) == CHOOSE i \in S : \A j \in S : i <= j

Last(S) == CHOOSE i \in S : \A j \in S : i >= j

SourceKeys == UNION {dict_keys(pre[Addr(srcs[i])]) : i \in 1..Len(srcs)}

(***************************************************************************)
(* C1: merge without a callback changes only obj: every source, and every  *)
(* container nested in it, has the content after the call that it had      *)
(* before the call.                                                        *)
(***************************************************************************)
C1_SourcesUnchanged ==
    (op = "merge" /\ arg = NoCallback) =>
        \A i \in 1..Len(srcs) : Content(heap, srcs[i]) = Content(pre, srcs[i])

(***************************************************************************)
(* C3: merge without a callback returns obj itself, and the content of obj *)
(* is the sources merged in one after the other: nested mappings merged by *)
(* key, keys only the destination holds kept, the last source winning a    *)
(* scalar conflict.                                                        *)
(***************************************************************************)
C3_MergeNestedMappings ==
    (op = "merge" /\ arg = NoCallback) =>
        /\ ret = obj
        /\ Content(heap, obj) = MergedAll(Content(pre, obj), PreContents, 1)

\* Two sources; obj and the first hold non-empty mappings at "a", obj's with
\* a key the source lacks; both sources hold a scalar at "b".
C3_Witness ==
    /\ op = "merge" /\ arg = NoCallback /\ Len(srcs) = 2
    /\ HasKey(pre, obj, "a") /\ HasKey(pre, srcs[1], "a")
    /\ LET ov == dict_get(pre, obj, "a", None)
           sv == dict_get(pre, srcs[1], "a", None)
       IN /\ is_dict(pre, ov) /\ is_dict(pre, sv)
          /\ truthy(pre, ov) /\ truthy(pre, sv)
          /\ dict_keys(pre[Addr(ov)]) \ dict_keys(pre[Addr(sv)]) # {}
    /\ HasKey(pre, srcs[1], "b") /\ HasKey(pre, srcs[2], "b")
    /\ dict_get(heap, obj, "b", None) = dict_get(pre, srcs[2], "b", None)

(***************************************************************************)
(* C6: assign without a callback, on any mapping and any list of zero or   *)
(* more sources, completes and returns obj itself; a key some source holds *)
(* maps to the value of the last source holding it, and a key of obj that  *)
(* no source holds keeps its value.                                        *)
(***************************************************************************)
C6_AssignCompletes ==
    (op = "assign" /\ arg = NoCallback) =>
        /\ exc = "none"
        /\ ret = obj
        /\ \A k \in SourceKeys :
              dict_get(heap, obj, k, Absent) = dict_get(pre, srcs[Last(Holders(k))], k, None)
        /\ \A k \in dict_keys(pre[Addr(obj)]) \ SourceKeys :
              dict_get(heap, obj, k, Absent) = dict_get(pre, obj, k, None)

(***************************************************************************)
(* C7: defaults returns obj itself; a key obj held keeps its value, a key  *)
(* obj lacked that some source holds gets the value of the first source    *)
(* holding it, and no other key is added.                                  *)
(***************************************************************************)
C7_DefaultsFillsMissing ==
    op = "defaults" =>
        /\ ret = obj
        /\ exc = "none"
        /\ dict_keys(heap[Addr(obj)]) = dict_keys(pre[Addr(obj)]) \cup SourceKeys
        /\ \A k \in dict_keys(pre[Addr(obj)]) :
              dict_get(heap, obj, k, Absent) = dict_get(pre, obj, k, None)
        /\ \A k \in SourceKeys \ dict_keys(pre[Addr(obj)]) :
              dict_get(heap, obj, k, Absent) = dict_get(pre, srcs[First(Holders(k))], k, None)

\* obj holds "a" and lacks "b"; both sources hold "b", the first also "a".
C7_Witness ==
    /\ op = "defaults" /\ Len(srcs) = 2
    /\ HasKey(pre, obj, "a") /\ ~HasKey(pre, obj, "b")
    /\ HasKey(pre, srcs[1], "a") /\ HasKey(pre, srcs[1], "b") /\ HasKey(pre, srcs[2], "b")
    /\ dict_get(heap, obj, "b", None) = dict_get(pre, srcs[1], "b", None)
    /\ dict_get(heap, obj, "b", None) # dict_get(pre, srcs[2], "b", None)

(***************************************************************************)
(* The calls of update, with and without a callback, on every obj and      *)
(* every source of the family.                                             *)
(***************************************************************************)
InitUpdate ==
    \E o \in UpdateTops, s \in UpdateTops :
        LET r == alloc_all(<<>>, <<o, Owned(s, 1)>>, 1, <<>>) IN
        /\ heap = r[1]
        /\ pre = r[1]
        /\ obj = r[2][1]
        /\ srcs = <<r[2][2]>>
        /\ op = "init"
        /\ arg = NoCallback
        /\ ret = None
        /\ exc = "none"
        /\ log = <<>>
        /\ nwrites = 0

Update ==
    /\ op = "init"
    /\ heap' = update(heap, obj, srcs[1], NoCallback)
    /\ op' = "update"
    /\ pre' = heap
    /\ ret' = obj
    /\ UNCHANGED <<obj, srcs, arg, exc, log, nwrites>>

UpdateCallback ==
    /\ op = "init"
    /\ \E cb \in Callbacks :
        /\ heap' = update(heap, obj, srcs[1], cb)
        /\ arg' = cb
    /\ op' = "update"
    /\ pre' = heap
    /\ ret' = obj
    /\ UNCHANGED <<obj, srcs, exc, log, nwrites>>

NextUpdate == Update \/ UpdateCallback

SpecUpdate == InitUpdate /\ [][NextUpdate]_vars

\* The values obj and the source held at key k before the call.
ObjAt(k) == get_item(pre, obj, k, None)

SrcAt(k) == get_item(pre, srcs[1], k, None)

Items(h, v) == h[Addr(v)].items

\* Both values are non-empty mappings, or both are lists and the source's is
\* not empty.
SharedShape(h, obj_value, src_value) ==
    \/ /\ is_dict(h, obj_value) /\ is_dict(h, src_value)
       /\ truthy(h, obj_value) /\ truthy(h, src_value)
    \/ /\ is_list(h, obj_value) /\ is_list(h, src_value)
       /\ truthy(h, src_value)

C4_ListsMergeByPosition ==
    (op = "update" /\ arg = NoCallback) =>
        \A k \in dict_keys(pre[Addr(srcs[1])]) :
            (/\ is_list(pre, ObjAt(k)) /\ is_list(pre, SrcAt(k))
             /\ truthy(pre, SrcAt(k))
             /\ Len(Items(pre, SrcAt(k))) <= Len(Items(pre, ObjAt(k)))) =>
                LET r == get_item(heap, obj, k, None)
                    n == Len(Items(pre, SrcAt(k)))
                IN /\ is_list(heap, r)
                   /\ Len(Items(heap, r)) = Len(Items(pre, ObjAt(k)))
                   /\ \A i \in 1..Len(Items(heap, r)) :
                        Content(heap, Items(heap, r)[i]) =
                            IF i <= n
                            THEN MergedContent(Content(pre, Items(pre, ObjAt(k))[i]),
                                               Content(pre, Items(pre, SrcAt(k))[i]))
                            ELSE Content(pre, Items(pre, ObjAt(k))[i])

\* obj holds a list of two at "a", the source a list of one; their first
\* elements are mappings with different keys, merged into one mapping of two
\* keys, and obj's second element stays.
C4_Witness ==
    /\ op = "update" /\ arg = NoCallback
    /\ HasKey(pre, srcs[1], "a")
    /\ is_list(pre, ObjAt("a")) /\ is_list(pre, SrcAt("a"))
    /\ Len(Items(pre, ObjAt("a"))) = 2 /\ Len(Items(pre, SrcAt("a"))) = 1
    /\ is_dict(pre, Items(pre, ObjAt("a"))[1]) /\ is_dict(pre, Items(pre, SrcAt("a"))[1])
    /\ LET r == get_item(heap, obj, "a", None)
       IN /\ Content(heap, Items(heap, r)[1]) = <<"dict", {<<"a", PyInt(1)>>, <<"b", PyInt(12)>>}>>
          /\ Items(heap, r)[2] = PyInt(2)

(***************************************************************************)
(* C10: update without a callback, at a key where the source holds an      *)
(* empty list or an empty mapping: obj[key] becomes that empty value,      *)
(* whatever obj held there, and what obj held there is not updated.        *)
(***************************************************************************)
C10_EmptySourceOverwrites ==
    (op = "update" /\ arg = NoCallback) =>
        \A k \in dict_keys(pre[Addr(srcs[1])]) :
            (IsRef(SrcAt(k)) /\ ~truthy(pre, SrcAt(k))) =>
                /\ get_item(heap, obj, k, None) = SrcAt(k)
                /\ Len(Items(heap, SrcAt(k))) = 0
                /\ IsRef(ObjAt(k)) => heap[Addr(ObjAt(k))] = pre[Addr(ObjAt(k))]

\* obj holds a non-empty mapping at "a", the source an empty one.
C10_Witness ==
    /\ op = "update" /\ arg = NoCallback
    /\ HasKey(pre, srcs[1], "a")
    /\ is_dict(pre, ObjAt("a")) /\ truthy(pre, ObjAt("a"))
    /\ is_dict(pre, SrcAt("a")) /\ ~truthy(pre, SrcAt("a"))
    /\ Content(heap, obj) = <<"dict", {<<"a", <<"dict", {}>>>>}>>

(***************************************************************************)
(* clone (41-68) and clone_deep (71-83).  copy.copy allocates a container  *)
(* holding the same values; copy.deepcopy copies the nested containers too *)
(* (the inputs are trees, so its memo of shared containers is never hit).  *)
(***************************************************************************)
copy_copy(h, v) == <<Append(h, h[Addr(v)]), Ref(Len(h) + 1)>>

RECURSIVE copy_deepcopy(_, _)
RECURSIVE deepcopy_items(_, _, _, _, _)

deepcopy_items(h, kind, items, i, acc) ==
    IF i > Len(items) THEN <<h, acc>>
    ELSE LET sub == copy_deepcopy(h, IF kind = "dict" THEN items[i][2] ELSE items[i])
             item == IF kind = "dict" THEN <<items[i][1], sub[2]>> ELSE sub[2]
         IN deepcopy_items(sub[1], kind, items, i + 1, Append(acc, item))

copy_deepcopy(h, v) ==
    IF ~IsRef(v) THEN <<h, v>>
    ELSE LET c == h[Addr(v)]
             r == deepcopy_items(h, c.kind, c.items, 1, <<>>)
         IN <<Append(r[1], [kind |-> c.kind, items |-> r[2]]), Ref(Len(r[1]) + 1)>>

\* Mutant: is_deep is not looked at, the copy is always shallow.
copier_always_shallow(h, v, is_deep) == copy_copy(h, v)

\* Line 58-59: copier = copy.deepcopy if is_deep else copy.copy; copier(value).
copier(h, v, is_deep) == IF is_deep THEN copy_deepcopy(h, v) ELSE copy_copy(h, v)

\* callback(val) of clone: identity when none is given.
clone_callback(cb, val) == IF cb = NoCallback THEN val ELSE CallbackConst

\* clone(value, is_deep, callback): <<the heap after the call, the clone>>.
clone(h, value, is_deep, callback) ==
    LET c == copier(h, value, is_deep)
        pairs == [i \in 1..Len(iterate(c[1], c[2])) |->
                     <<iterate(c[1], c[2])[i][1],
                       clone_callback(callback, iterate(c[1], c[2])[i][2])>>]
        new == IF is_list(c[1], c[2])
               THEN [kind |-> "list", items |-> [i \in 1..Len(pairs) |-> pairs[i][2]]]
               ELSE [kind |-> "dict", items |-> pairs]
    IN <<Append(c[1], new), Ref(Len(c[1]) + 1)>>

clone_deep(h, value, callback) == clone(h, value, TRUE, callback)

\* The value to clone: a dict whose "a" is missing, a scalar, a flat dict or
\* a flat list and whose "b" is missing or a scalar, or a list of scalars
\* and small dicts.
CloneTops ==
    DictLits({Absent, PyInt(1)} \cup FlatDicts \cup FlatLists, {Absent, PyInt(2)})
        \cup ElemLists

InitClone ==
    \E x \in CloneTops :
        LET r == alloc(<<>>, x) IN
        /\ heap = r[1]
        /\ pre = r[1]
        /\ obj = r[2]
        /\ srcs = <<>>
        /\ op = "init"
        /\ arg = NoCallback
        /\ ret = None
        /\ exc = "none"
        /\ log = <<>>
        /\ nwrites = 0

Clone ==
    /\ op = "init"
    /\ \E cb \in {NoCallback, "const"} :
        LET r == clone(heap, obj, FALSE, cb) IN
        /\ heap' = r[1]
        /\ ret' = r[2]
        /\ arg' = cb
    /\ op' = "clone"
    /\ pre' = heap
    /\ UNCHANGED <<obj, srcs, exc, log, nwrites>>

CloneDeep ==
    /\ op = "init"
    /\ \E cb \in {NoCallback, "const"} :
        LET r == clone_deep(heap, obj, cb) IN
        /\ heap' = r[1]
        /\ ret' = r[2]
        /\ arg' = cb
    /\ op' = "clone_deep"
    /\ pre' = heap
    /\ UNCHANGED <<obj, srcs, exc, log, nwrites>>

\* The values a container holds.
ValuesOf(c) ==
    {IF c.kind = "dict" THEN c.items[i][2] ELSE c.items[i] : i \in 1..Len(c.items)}

RECURSIVE Nested(_, _)

\* The addresses of the containers nested, at any depth, in a container.
Nested(h, v) ==
    UNION {{Addr(w)} \cup Nested(h, w) : w \in {u \in ValuesOf(h[Addr(v)]) : IsRef(u)}}

\* The places of a container a caller may write: a key of a dict, held or
\* not; an index of a list, or the index one past its end.
WriteKeys(c) == IF c.kind = "dict" THEN {"a", "b"} ELSE 0..Len(c.items)

Written == PyInt(77)

\* The caller writes a top-level entry of the clone.
WriteTop ==
    /\ op \in {"clone", "clone_deep"}
    /\ IsRef(ret)
    /\ nwrites < MaxWrites
    /\ \E k \in WriteKeys(heap[Addr(ret)]) : heap' = set_item(heap, ret, k, Written)
    /\ nwrites' = nwrites + 1
    /\ UNCHANGED <<pre, obj, srcs, op, arg, ret, exc, log>>

\* The caller writes an entry of a container nested in a deep clone.
WriteNested ==
    /\ op = "clone_deep"
    /\ IsRef(ret)
    /\ nwrites < MaxWrites
    /\ \E a \in Nested(heap, ret) :
         \E k \in WriteKeys(heap[a]) : heap' = set_item(heap, Ref(a), k, Written)
    /\ nwrites' = nwrites + 1
    /\ UNCHANGED <<pre, obj, srcs, op, arg, ret, exc, log>>

NextClone == Clone \/ CloneDeep \/ WriteTop \/ WriteNested

SpecClone == InitClone /\ [][NextClone]_vars

(***************************************************************************)
(* C5: the clone (default callback) has the content of x and is not x's    *)
(* storage; x keeps its content through the call and through every write   *)
(* to the clone: a top-level write to a clone, a write at any depth to a   *)
(* deep clone, none of whose containers is one of x's.                     *)
(***************************************************************************)
C5_CloneLeavesInputAlone ==
    op \in {"clone", "clone_deep"} =>
        /\ Content(heap, obj) = Content(pre, obj)
        /\ Addr(ret) # Addr(obj)
        /\ op = "clone_deep" =>
              ({Addr(ret)} \cup Nested(heap, ret)) \cap ({Addr(obj)} \cup Nested(heap, obj)) = {}
        /\ (nwrites = 0 /\ arg = NoCallback) => Content(heap, ret) = Content(pre, obj)

\* Two writes to a deep clone of a dict that holds a dict at "a": one at the
\* top, one in the nested dict; x holds what it held.
C5_Witness ==
    /\ op = "clone_deep" /\ arg = NoCallback /\ nwrites = 2
    /\ is_dict(heap, ret)
    /\ dict_get(heap, ret, "b", None) = Written
    /\ dict_get(heap, obj, "b", None) = PyInt(2)
    /\ is_dict(heap, dict_get(heap, ret, "a", None))
    /\ dict_get(heap, dict_get(heap, ret, "a", None), "a", None) = Written
    /\ dict_get(heap, dict_get(heap, obj, "a", None), "a", None) = PyInt(1)

(***************************************************************************)
(* for_in (110-118).  iter_callback (utils, written from section 4.3 of    *)
(* the spec) yields (callback(value, key, obj), value, key, obj) lazily,   *)
(* one pair at a time, so the callback runs for a pair only when the loop  *)
(* asks for it.  A callback is given by the result it returns at each pair *)
(* in iteration order; the log is the keys it was invoked with.            *)
(***************************************************************************)
\* Mutant: any falsy result stops the loop.
is_False_or_falsy(result) == IF result[1] = "none" THEN TRUE ELSE result[2] = 0

\* Line 115: result is False.
is_False(result) == result = False

\* The result iter_callback yields for the i-th pair.
iter_callback(h, o, results, i) == results[i]

RECURSIVE for_in_loop(_, _, _, _, _)

\* The loop of lines 114-116 from the i-th pair on: the log when it ends.
for_in_loop(h, o, results, i, invoked) ==
    IF i > Len(iterate(h, o)) THEN invoked
    ELSE LET result == iter_callback(h, o, results, i)
             now == Append(invoked, iterate(h, o)[i][1])
         IN IF is_False(result) THEN now
            ELSE for_in_loop(h, o, results, i + 1, now)

\* for_in(obj, callback): the keys the callback was invoked with; it returns obj.
for_in(h, o, results) == for_in_loop(h, o, results, 1, <<>>)

(***************************************************************************)
(* pick (342-364) and omit (304-326).  The callback argument is            *)
(* <<"none", <<>>>>, <<"name", <<k>>>>, <<"list", names>> or, a callable,  *)
(* <<"func", keys>>: the predicate that is truthy at these keys.  A        *)
(* property is <<"name", <<k>>>> or <<"list", names>>.                     *)
(***************************************************************************)
RECURSIVE flatten(_)

\* flatten (arrays, written from section 6 of the spec): the names of the
\* arguments, lists of names opened, in order.
flatten(items) == IF items = <<>> THEN <<>> ELSE Head(items)[2] \o flatten(Tail(items))

Range(s) == {s[i] : i \in 1..Len(s)}

callable(callback) == callback[1] = "func"

\* Lines 358-361: the predicate (value, key, obj) -> bool that is used.
predicate(callback, properties, key) ==
    IF callable(callback) THEN key \in Range(callback[2])
    ELSE key \in Range(flatten(<<callback>> \o properties))

RECURSIVE kept_pairs(_, _, _, _, _)

\* The pairs of iterate(obj), from the i-th on, at which the predicate is
\* truthy (keep = TRUE) or falsy (keep = FALSE).
kept_pairs(pairs, callback, properties, keep, i) ==
    IF i > Len(pairs) THEN <<>>
    ELSE (IF predicate(callback, properties, pairs[i][1]) = keep THEN <<pairs[i]>> ELSE <<>>)
            \o kept_pairs(pairs, callback, properties, keep, i + 1)

\* pick(obj, callback, *properties): <<the heap after the call, the new dict>>.
pick(h, o, callback, properties) ==
    <<Append(h, [kind |-> "dict",
                 items |-> kept_pairs(iterate(h, o), callback, properties, TRUE, 1)]),
      Ref(Len(h) + 1)>>

\* Mutant: the "not" of line 326 is missing.
omit_without_not(h, o, callback, properties) == pick(h, o, callback, properties)

\* omit(obj, callback, *properties): <<the heap after the call, the new dict>>.
omit(h, o, callback, properties) ==
    <<Append(h, [kind |-> "dict",
                 items |-> kept_pairs(iterate(h, o), callback, properties, FALSE, 1)]),
      Ref(Len(h) + 1)>>

\* The sequences of at most n different keys, in any order.
KeySeqs(K, n) ==
    {s \in UNION {[1..k -> K] : k \in 0..n} :
        \A i, j \in 1..Len(s) : i # j => s[i] # s[j]}

\* The collections iterated: the dicts of at most MaxPairs pairs over the
\* keys "a", "b", "c", "d" in every insertion order, and the lists of at most
\* MaxPairs values; the scalar at place i is i.
IterTops ==
    {<<"dict", [i \in 1..Len(ks) |-> <<ks[i], PyInt(i)>>]>> : ks \in KeySeqs({"a", "b", "c", "d"}, MaxPairs)}
        \cup {<<"list", [i \in 1..k |-> PyInt(i)]>> : k \in 0..MaxPairs}

\* What a callback may return: False, 0, '', None, True, 5.
Results == {False, PyInt(0), Str(0), None, True, PyInt(5)}

Names == {"a", "b", "z"}

NameArgs ==
    {<<"name", <<k>>>> : k \in Names}
        \cup {<<"list", s>> : s \in {<<>>} \cup [1..1 -> Names] \cup [1..2 -> Names]}

CallbackArgs ==
    {<<"none", <<>>>>} \cup NameArgs \cup {<<"func", s>> : s \in {<<>>, <<"a">>, <<"a", "c">>}}

PropertyArgs == {<<>>} \cup {<<p>> : p \in NameArgs}

InitIter ==
    \E x \in IterTops :
        LET r == alloc(<<>>, x) IN
        /\ heap = r[1]
        /\ pre = r[1]
        /\ obj = r[2]
        /\ srcs = <<>>
        /\ op = "init"
        /\ arg = <<>>
        /\ ret = None
        /\ exc = "none"
        /\ log = <<>>
        /\ nwrites = 0

ForIn ==
    /\ op = "init"
    /\ \E results \in [1..Len(heap[Addr(obj)].items) -> Results] :
        /\ log' = for_in(heap, obj, results)
        /\ arg' = results
    /\ op' = "for_in"
    /\ pre' = heap
    /\ ret' = obj
    /\ UNCHANGED <<heap, obj, srcs, exc, nwrites>>

Pick ==
    /\ op = "init"
    /\ is_dict(heap, obj)
    /\ \E callback \in CallbackArgs, properties \in PropertyArgs :
        LET r == pick(heap, obj, callback, properties) IN
        /\ heap' = r[1]
        /\ ret' = r[2]
        /\ arg' = <<callback, properties>>
    /\ op' = "pick"
    /\ pre' = heap
    /\ UNCHANGED <<obj, srcs, exc, log, nwrites>>

Omit ==
    /\ op = "init"
    /\ is_dict(heap, obj)
    /\ \E callback \in CallbackArgs, properties \in PropertyArgs :
        LET r == omit(heap, obj, callback, properties) IN
        /\ heap' = r[1]
        /\ ret' = r[2]
        /\ arg' = <<callback, properties>>
    /\ op' = "omit"
    /\ pre' = heap
    /\ UNCHANGED <<obj, srcs, exc, log, nwrites>>

NextIter == ForIn \/ Pick \/ Omit

SpecIter == InitIter /\ [][NextIter]_vars

\* The places at which the callback returned exactly False.
FalseAt == {i \in 1..Len(arg) : arg[i] = False}

\* The number of pairs the callback is to be invoked with: all of them, or
\* those up to the first at which it returns False.
Stop == IF FalseAt = {} THEN Len(arg) ELSE First(FalseAt)

(***************************************************************************)
(* C8: for_in invokes the callback with the pairs of obj in iteration      *)
(* order, up to and including the first pair at which it returns exactly   *)
(* False and with no pair after it; 0, '' and None do not stop it; for_in  *)
(* returns obj.                                                            *)
(***************************************************************************)
C8_ForInStopsAtFalse ==
    op = "for_in" =>
        /\ ret = obj
        /\ heap = pre
        /\ log = [i \in 1..Stop |-> iterate(pre, obj)[i][1]]

\* Three pairs: the callback returns a falsy value that is not False, then
\* False; it is invoked with the first two pairs and not with the third.
C8_Witness ==
    /\ op = "for_in"
    /\ Len(arg) = 3
    /\ arg[1] \in {PyInt(0), Str(0), None}
    /\ arg[2] = False
    /\ Len(log) = 2

\* The names given to pick or omit, for a call that gives names.
GivenNames == Range(arg[1][2]) \cup UNION {Range(arg[2][i][2]) : i \in 1..Len(arg[2])}

PairsOf(h, v) == Range(h[Addr(v)].items)

(***************************************************************************)
(* C9: pick with property names returns a new mapping of exactly the pairs *)
(* of obj whose key is among the names, omit one of exactly the pairs      *)
(* whose key is not; for the same obj and names the key sets of the two    *)
(* are disjoint and make up obj's; obj is unchanged.                       *)
(***************************************************************************)
C9_PickOmitPartition ==
    (op \in {"pick", "omit"} /\ ~callable(arg[1])) =>
        LET picked == pick(pre, obj, arg[1], arg[2])
            omitted == omit(pre, obj, arg[1], arg[2])
        IN /\ heap[Addr(obj)] = pre[Addr(obj)]
           /\ Addr(ret) # Addr(obj)
           /\ is_dict(heap, ret)
           /\ Len(heap[Addr(ret)].items) = Cardinality(PairsOf(heap, ret))
           /\ op = "pick" =>
                PairsOf(heap, ret) = {p \in PairsOf(pre, obj) : p[1] \in GivenNames}
           /\ op = "omit" =>
                PairsOf(heap, ret) = {p \in PairsOf(pre, obj) : p[1] \notin GivenNames}
           /\ LET other == IF op = "pick" THEN omitted ELSE picked
                  mine == dict_keys(heap[Addr(ret)])
                  theirs == dict_keys(other[1][Addr(other[2])])
              IN /\ mine \cap theirs = {}
                 /\ mine \cup theirs = dict_keys(pre[Addr(obj)])

\* omit, with a name and a list of names, one of them no key of obj, on a
\* dict of three keys: one pair is kept.
C9_Witness ==
    /\ op = "omit"
    /\ arg = << <<"name", <<"a">>>>, << <<"list", <<"z", "b">>>> >> >>
    /\ dict_keys(pre[Addr(obj)]) = {"a", "b", "c"}
    /\ dict_keys(heap[Addr(ret)]) = {"c"}

====
